---- MODULE Spec2Model ----
(***************************************************************************)
(* Model of libosdp/src/file.rs: the OSDP file-transfer context OsdpFile   *)
(* and the four extern "C" callbacks (raw_file_open, raw_file_read,        *)
(* raw_file_write, raw_file_close) that the protocol engine invokes on it. *)
(*                                                                         *)
(* One context, one path.  The file system is modelled as far as the       *)
(* callbacks observe it: whether the path is linked, the bytes of the      *)
(* file, and the set of live file descriptors of the process.              *)
(*                                                                         *)
(* Integer widths are scaled: the ABI integer (i32 in the source) has      *)
(* IntBits bits, usize/u64/off64_t have 2*IntBits bits.  All conversions   *)
(* (`as usize`, `as u64`, `as i32`) are modelled as the two's complement   *)
(* reinterpretations Rust performs, on the scaled widths.                  *)
(***************************************************************************)
EXTENDS Integers, Sequences, FiniteSets, TLC

VARIABLES
    ctx,          \* the OsdpFile: [id, path, file, size]
    disk,         \* the file at ctx.path: [linked, data]
    fds,          \* live file descriptors of the process
    doubleClose,  \* ghost: some descriptor was released while not live
    status,       \* "running", or how the process ended
    last,         \* ghost: the most recent callback, its arguments and effects
    prev,         \* ghost: [op, ret, fscalls] of the callback before `last`
    balance       \* ghost: successful opens minus successful closes

vars == <<ctx, disk, fds, doubleClose, status, last, prev, balance>>

(***************************************************************************)
(* Bounds                                                                  *)
(***************************************************************************)
IntBits == 3
MaxFileLen == 4
MaxLen == 2
MaxOff == 1

(***************************************************************************)
(* Integer types and conversions                                           *)
(***************************************************************************)
I32Mod == 2^IntBits
I32Min == -(2^(IntBits - 1))
I32Max == 2^(IntBits - 1) - 1
I32 == I32Min..I32Max

USizeMod == 2^(2 * IntBits)
USizeMax == USizeMod - 1
ISizeMax == 2^(2 * IntBits - 1) - 1

\* `x as usize` / `x as u64` for a signed x: sign-extend, reinterpret
AsUsize(x) == x % USizeMod

\* `u as i32` for an unsigned u: truncate to the low bits, reinterpret
AsI32(u) == LET m == u % I32Mod IN IF m > I32Max THEN m - I32Mod ELSE m

\* the u64 offset as the off64_t the positional system call receives
AsOff64(u) == IF u > ISizeMax THEN u - USizeMod ELSE u

Min(a, b) == IF a < b THEN a ELSE b
Max(a, b) == IF a > b THEN a ELSE b

(***************************************************************************)
(* The file system                                                         *)
(***************************************************************************)
\* the bytes of a file of length n (bytes are never 0, the scratch fill)
Pattern(n) == [i \in 1..n |-> 1 + (i % 2)]
SampleFiles == {Pattern(n) : n \in 0..MaxFileLen}

\* the caller's buffer of `size` bytes before a callback touches it: every
\* byte is 9, a value that is neither a file byte nor the scratch fill
CallerBuf(size) == [i \in 1..Max(size, 0) |-> 9]

\* the lowest descriptor that is not live (0, 1, 2 are the standard streams)
LowestFree(live) == CHOOSE n \in 3..(3 + Cardinality(live)) :
                        /\ n \notin live
                        /\ \A m \in 3..(n - 1) : m \in live

\* std::fs::File::open(path): read-only; <<>> is Err, <<h>> is Ok(h)
FileOpen(d, live) ==
    IF d.linked
    THEN << [fd |-> LowestFree(live), read |-> TRUE, write |-> FALSE] >>
    ELSE << >>

\* why a positional system call fails: a negative position, a descriptor
\* not opened for the access, a device error (ioErr); "" when it succeeds
Errno(offset, allowed, ioErr) ==
    IF AsOff64(offset) < 0 THEN "EINVAL"
    ELSE IF ~allowed THEN "EBADF"
    ELSE IF ioErr THEN "EIO"
    ELSE ""

\* File::read_at(buf, offset) -> io::Result<usize>, buf of `count` bytes
pread(h, d, count, offset, ioErr) ==
    LET e == Errno(offset, h.read, ioErr) IN
    IF e # ""
    THEN [ok |-> FALSE, err |-> e, n |-> 0, bytes |-> << >>]
    ELSE LET n == Min(count, Max(0, Len(d.data) - offset))
         IN  [ok |-> TRUE, err |-> e, n |-> n,
              bytes |-> SubSeq(d.data, offset + 1, offset + n)]

\* File::write_at(buf, offset) -> io::Result<usize>; data is the file after
pwrite(h, d, buf, offset, ioErr) ==
    LET e == Errno(offset, h.write, ioErr) IN
    IF e # ""
    THEN [ok |-> FALSE, err |-> e, n |-> 0, data |-> d.data]
    ELSE LET end == Max(Len(d.data), offset + Len(buf))
         IN  [ok |-> TRUE, err |-> e, n |-> Len(buf),
              data |-> [i \in 1..end |->
                          IF i > offset /\ i <= offset + Len(buf)
                          THEN buf[i - offset]
                          ELSE IF i <= Len(d.data) THEN d.data[i] ELSE 0]]

(***************************************************************************)
(* The context                                                             *)
(***************************************************************************)
\* the identifier the context is built with, and the identifiers the engine
\* may ask for
Ids == {1, 2}
CtxId == CHOOSE id \in Ids : \A other \in Ids : id <= other
Path == "fw.bin"

\* OsdpFile::new(id, path)
New(id, path) == [id |-> id, path |-> path, file |-> << >>, size |-> 0]

\* the record of a callback that has had no effect yet
Call(op, file_id, size, offset) ==
    [op |-> op, file_id |-> file_id, size |-> size, offset |-> offset,
     pre |-> ctx,          \* the context when the callback was entered
     ret |-> 0,            \* the value returned (meaningless unless running)
     wrote |-> << >>,      \* <<v>>: v was stored through the out_size pointer
     fscalls |-> << >>,    \* the file-system calls made, in order
     pos |-> << >>,        \* <<p>>: p was the position of the positional I/O
     alloc |-> << >>,      \* <<n>>: a scratch buffer of n bytes was requested
     copied |-> 0,         \* the byte count given to copy_nonoverlapping
     ioOk |-> FALSE,       \* the positional I/O returned Ok
     err |-> "",           \* why the failing system call returned Err
     ion |-> 0,            \* the count the positional I/O returned
     out |-> CallerBuf(size),  \* the caller's buffer after the callback
     rc |-> 0,             \* what the engine returned (register, status)
     handed |-> << >>,     \* the operation tables handed to the engine
     res |-> << >>]        \* <<r>>: the Result r of register / status

Shift == [op |-> last.op, ret |-> last.ret, fscalls |-> last.fscalls]

Init ==
    /\ ctx = New(CtxId, Path)
    /\ \E f \in SampleFiles : \E l \in BOOLEAN :
          disk = [linked |-> l, data |-> IF l THEN f ELSE << >>]
    /\ fds = {}
    /\ doubleClose = FALSE
    /\ status = "running"
    /\ last = [Call("new", 0, 0, 0) EXCEPT !.pre = ctx]
    /\ prev = [op |-> "none", ret |-> 0, fscalls |-> << >>]
    /\ balance = 0

(***************************************************************************)
(* raw_file_open                                                           *)
(***************************************************************************)
\* the early return of raw_file_open
OpenRejected_NoOpenCheck(c, file_id) == file_id # c.id
OpenRejected_And(c, file_id) == c.file # << >> /\ file_id # c.id
OpenRejected_NoIdCheck(c, file_id) == c.file # << >>
OpenRejected_IsNone(c, file_id) == c.file = << >> \/ file_id # c.id
OpenRejected(c, file_id) == c.file # << >> \/ file_id # c.id

\* ctx.size = len as usize; ctx.file = Some(file)
OpenStore_KeepSize(c, f, len) ==
    [c EXCEPT !.size = IF c.size = 0 THEN len ELSE c.size, !.file = f]
OpenStore(c, f, len) == [c EXCEPT !.size = len, !.file = f]

\* *size = ctx.size as i32
OutSize(c) == AsI32(c.size)

\* a panic inside an extern "C" function: the process aborts, or (builds
\* that do not abort there) unwinds into the C caller, which is undefined
PanicOutcomes == {"aborted", "unwound"}

raw_file_open(file_id) ==
    LET call == Call("open", file_id, 0, 0)
        f == FileOpen(disk, fds)
    IN
    /\ status = "running"
    /\ prev' = Shift
    /\ UNCHANGED <<disk, doubleClose>>
    /\ IF OpenRejected(ctx, file_id) THEN
          /\ last' = [call EXCEPT !.ret = -1]
          /\ UNCHANGED <<ctx, fds, status, balance>>
       ELSE IF f = << >> THEN
          /\ last' = [call EXCEPT !.ret = -1, !.fscalls = <<"open">>]
          /\ UNCHANGED <<ctx, fds, status, balance>>
       ELSE
          \/ \* file.metadata() is Err and unwrap() panics; `file` is
             \* dropped or dies with the process, ctx is not yet assigned
             /\ last' = [call EXCEPT !.fscalls = <<"open", "fstat">>,
                                     !.err = "EIO"]
             /\ status' \in PanicOutcomes
             /\ UNCHANGED <<ctx, fds, balance>>
          \/ \* the assignment to ctx.file drops the File it replaces
             /\ ctx' = OpenStore(ctx, f, Len(disk.data))
             /\ fds' = (fds \ {ctx.file[i].fd : i \in 1..Len(ctx.file)})
                           \cup {f[1].fd}
             /\ last' = [call EXCEPT !.ret = 0,
                                     !.fscalls = <<"open", "fstat">>,
                                     !.wrote = << OutSize(ctx') >>]
             /\ balance' = balance + 1
             /\ UNCHANGED status

(***************************************************************************)
(* raw_file_close                                                          *)
(***************************************************************************)
\* the early return of raw_file_close
CloseRejected(c) == c.file = << >>

\* ctx.file.take(): the context after the handle has been moved out
TakeFile_AsRef(c) == c
TakeFile_ResetSize(c) == [c EXCEPT !.file = << >>, !.size = 0]
TakeFile(c) == [c EXCEPT !.file = << >>]

raw_file_close ==
    LET call == Call("close", 0, 0, 0) IN
    /\ status = "running"
    /\ prev' = Shift
    /\ UNCHANGED disk
    /\ IF CloseRejected(ctx) THEN
          /\ last' = [call EXCEPT !.ret = -1]
          /\ UNCHANGED <<ctx, fds, doubleClose, balance, status>>
       ELSE IF ctx.file = << >> THEN
          \* ctx.file.take().unwrap() on None
          /\ last' = call
          /\ status' \in PanicOutcomes
          /\ UNCHANGED <<ctx, fds, doubleClose, balance>>
       ELSE
          \* the File taken out of the context is dropped: close(fd)
          /\ ctx' = TakeFile(ctx)
          /\ fds' = fds \ {ctx.file[1].fd}
          /\ doubleClose' = (doubleClose \/ ctx.file[1].fd \notin fds)
          /\ last' = [call EXCEPT !.ret = 0, !.fscalls = <<"close">>]
          /\ balance' = balance - 1
          /\ UNCHANGED status

(***************************************************************************)
(* raw_file_read                                                           *)
(***************************************************************************)
\* the early return of raw_file_read
ReadRejected_IsSome(c) == c.file # << >>
ReadRejected(c) == c.file = << >>

\* ctx.file.as_ref(): the context after the handle has been borrowed
BorrowFile_Take(c) == [c EXCEPT !.file = << >>]
BorrowFile(c) == c

\* vec![0u8; size as usize]: the length asked of the allocator
ScratchLen(size) == AsUsize(size)

\* a Vec of more than isize::MAX bytes: "capacity overflow" panic
AllocPanics(n) == n > ISizeMax

\* match file.pread(..) { Ok(len) => len as i32, Err(_) => -1 }
ReadLen_EofIsErr(r) == IF r.ok /\ r.n > 0 THEN AsI32(r.n) ELSE -1
ReadLen(r) == IF r.ok THEN AsI32(r.n) ELSE -1

\* copy_nonoverlapping(read_buf, buf, len as usize): the count
CopyCount(len) == AsUsize(len)

\* the scratch buffer after the positional read: zero-filled, then the
\* bytes read
ScratchAfter(n, r) == [i \in 1..n |-> IF i <= Len(r.bytes) THEN r.bytes[i] ELSE 0]

\* a copy of more bytes than the source or the destination holds is
\* undefined: the process faults, or runs on with memory overwritten
CopyOutcomes == {"segv", "running"}

raw_file_read(size, offset) ==
    LET call == Call("read", 0, size, offset)
        n == ScratchLen(size)
    IN
    /\ status = "running"
    /\ prev' = Shift
    /\ UNCHANGED <<disk, fds, doubleClose, balance>>
    /\ IF ReadRejected(ctx) THEN
          /\ last' = [call EXCEPT !.ret = -1]
          /\ UNCHANGED <<ctx, status>>
       ELSE IF ctx.file = << >> THEN
          \* ctx.file.as_ref().unwrap() on None
          /\ last' = call
          /\ status' \in PanicOutcomes
          /\ UNCHANGED ctx
       ELSE IF AllocPanics(n) THEN
          /\ last' = [call EXCEPT !.alloc = <<n>>]
          /\ status' \in PanicOutcomes
          /\ ctx' = BorrowFile(ctx)
       ELSE
          \E ioErr \in BOOLEAN :
          LET r == pread(ctx.file[1], disk, n, AsUsize(offset), ioErr)
              len == ReadLen(r)
              cnt == CopyCount(len)
              buf == ScratchAfter(n, r)
              done == [call EXCEPT !.alloc = <<n>>,
                                   !.fscalls = <<"pread">>,
                                   !.pos = << AsUsize(offset) >>,
                                   !.ioOk = r.ok,
                                   !.err = r.err,
                                   !.ion = r.n,
                                   !.copied = cnt,
                                   !.ret = len]
          IN
          /\ ctx' = BorrowFile(ctx)
          /\ IF cnt <= n THEN
                /\ last' = [done EXCEPT !.out =
                      [i \in 1..n |-> IF i <= cnt THEN buf[i] ELSE call.out[i]]]
                /\ UNCHANGED status
             ELSE
                \* the whole scratch buffer and what lies behind it is
                \* copied over the caller's buffer and what lies behind that
                /\ last' = [done EXCEPT !.out = buf]
                /\ status' \in CopyOutcomes

(***************************************************************************)
(* raw_file_write                                                          *)
(***************************************************************************)
\* the early return of raw_file_write
WriteRejected(c) == c.file = << >>

\* match file.pwrite(..) { Ok(len) => len as i32, Err(_) => -1 }
WriteLen(r) == IF r.ok THEN AsI32(r.n) ELSE -1

raw_file_write(size, offset, bytes) ==
    LET call == [Call("write", 0, size, offset) EXCEPT !.out = bytes]
        n == ScratchLen(size)
    IN
    /\ status = "running"
    /\ prev' = Shift
    /\ UNCHANGED <<fds, doubleClose, balance>>
    /\ IF WriteRejected(ctx) THEN
          /\ last' = [call EXCEPT !.ret = -1]
          /\ UNCHANGED <<ctx, status, disk>>
       ELSE IF AllocPanics(n) THEN
          /\ last' = [call EXCEPT !.alloc = <<n>>]
          /\ status' \in PanicOutcomes
          /\ UNCHANGED <<ctx, disk>>
       ELSE IF ctx.file = << >> THEN
          \* ctx.file.as_ref().unwrap() on None, after the copy
          /\ last' = [call EXCEPT !.alloc = <<n>>, !.copied = n]
          /\ status' \in PanicOutcomes
          /\ UNCHANGED <<ctx, disk>>
       ELSE
          \* write_buf holds the n bytes of the caller's buffer
          \E ioErr \in BOOLEAN :
          LET r == pwrite(ctx.file[1], disk, bytes, AsUsize(offset), ioErr) IN
          /\ ctx' = BorrowFile(ctx)
          /\ last' = [call EXCEPT !.alloc = <<n>>,
                                  !.copied = n,
                                  !.fscalls = <<"pwrite">>,
                                  !.pos = << AsUsize(offset) >>,
                                  !.ioOk = r.ok,
                                  !.err = r.err,
                                  !.ion = r.n,
                                  !.ret = WriteLen(r)]
          /\ disk' = [disk EXCEPT !.data = r.data]
          /\ UNCHANGED status

(***************************************************************************)
(* The environment: other processes change the file between callbacks.    *)
(* One inode is tracked, so the path is unlinked only while no descriptor  *)
(* of this process refers to it.                                           *)
(***************************************************************************)
EnvUnlink ==
    /\ disk.linked /\ fds = {}
    /\ disk' = [linked |-> FALSE, data |-> << >>]
    /\ UNCHANGED <<ctx, fds, doubleClose, status, last, prev, balance>>

EnvCreate ==
    /\ ~disk.linked
    /\ \E f \in SampleFiles : disk' = [linked |-> TRUE, data |-> f]
    /\ UNCHANGED <<ctx, fds, doubleClose, status, last, prev, balance>>

EnvResize ==
    /\ disk.linked
    /\ \E f \in SampleFiles \ {disk.data} : disk' = [disk EXCEPT !.data = f]
    /\ UNCHANGED <<ctx, fds, doubleClose, status, last, prev, balance>>

(***************************************************************************)
(* The engine's calls                                                      *)
(***************************************************************************)
Sizes == (-1..MaxLen) \cap I32
Offsets == ({I32Min} \cup (0..MaxOff)) \cap I32
FileBytes == {1, 2}
Buffers(size) == {[i \in 1..Max(size, 0) |-> b] : b \in FileBytes}

Open == \E file_id \in Ids : raw_file_open(file_id)

Read == \E size \in Sizes, offset \in Offsets : raw_file_read(size, offset)

Write == \E size \in Sizes, offset \in Offsets :
            \E bytes \in Buffers(size) : raw_file_write(size, offset, bytes)

Close == raw_file_close

(***************************************************************************)
(* OsdpFileOps: register_file and get_file_transfer_status.  The engine    *)
(* (libosdp_sys) is external: its return code and the values it stores     *)
(* through the out pointers are inputs.                                    *)
(***************************************************************************)
\* the address of the context, `self as *mut _ as *mut c_void`
CtxAddr == "&fm"

\* OsdpFile::get_ops_struct
get_ops_struct_NoWrite(addr) ==
    [arg |-> addr, open |-> "raw_file_open", read |-> "raw_file_read",
     write |-> "None", close |-> "raw_file_close"]
get_ops_struct(addr) ==
    [arg |-> addr, open |-> "raw_file_open", read |-> "raw_file_read",
     write |-> "raw_file_write", close |-> "raw_file_close"]

\* Result<()> / Result<(i32, i32)> of the two methods
Ok(size, offset) == [ok |-> TRUE, size |-> size, offset |-> offset, err |-> ""]
Err(what) == [ok |-> FALSE, size |-> 0, offset |-> 0, err |-> what]

\* if rc < 0 { Err(FileTransfer("ops register")) } else { Ok(()) }
RegisterResult(rc) == IF rc < 0 THEN Err("ops register") ELSE Ok(0, 0)

\* if rc < 0 { Err(FileTransfer("transfer status query")) }
\* else { Ok((size, offset)) }
StatusResult_Swapped(rc, size, offset) ==
    IF rc < 0 THEN Err("transfer status query") ELSE Ok(offset, size)
StatusResult(rc, size, offset) ==
    IF rc < 0 THEN Err("transfer status query") ELSE Ok(size, offset)

register_file(pd, rc) ==
    LET ops == get_ops_struct(CtxAddr) IN
    /\ status = "running"
    /\ prev' = Shift
    /\ last' = [Call("register", 0, 0, 0) EXCEPT !.rc = rc,
                                                 !.handed = <<ops>>,
                                                 !.res = << RegisterResult(rc) >>]
    /\ UNCHANGED <<ctx, disk, fds, doubleClose, status, balance>>

\* size and offset start as 0; the engine may store into them
get_file_transfer_status(pd, rc, stored) ==
    LET size == IF stored = << >> THEN 0 ELSE stored[1]
        offset == IF stored = << >> THEN 0 ELSE stored[2]
    IN
    /\ status = "running"
    /\ prev' = Shift
    /\ last' = [Call("status", 0, size, offset) EXCEPT
                    !.rc = rc,
                    !.res = << StatusResult(rc, size, offset) >>]
    /\ UNCHANGED <<ctx, disk, fds, doubleClose, status, balance>>

Pds == {0}
EngineRcs == {-1, 0, 1}
EngineStored == {<< >>, <<I32Max, 1>>}

RegisterFile == \E pd \in Pds, rc \in EngineRcs : register_file(pd, rc)

GetStatus == \E pd \in Pds, rc \in EngineRcs, stored \in EngineStored :
                get_file_transfer_status(pd, rc, stored)

Next ==
    \/ Open \/ Read \/ Write \/ Close
    \/ RegisterFile \/ GetStatus
    \/ EnvUnlink \/ EnvCreate \/ EnvResize

Spec == Init /\ [][Next]_vars

(***************************************************************************)
(* Properties                                                              *)
(***************************************************************************)
Active(c) == c.file # << >>
Returned(v) == status = "running" /\ last.ret = v

\* the step is the callback `op`: every step of the environment changes
\* disk, every callback records itself in last, and open, read and close
\* leave disk alone
CallStep(op) == disk' = disk /\ last'.op = op /\ last'.pre = ctx

\* C1: the handle is present exactly while a transfer is active: it is
\* absent after OsdpFile::new, the callback that makes it present is an open
\* returning 0, the callback that makes it absent is a close returning 0,
\* and successful opens minus successful closes is 0 (absent) or 1 (present).
C1_HandleIffActive ==
    /\ balance \in {0, 1}
    /\ Active(ctx) <=> balance = 1
    /\ fds = {ctx.file[i].fd : i \in 1..Len(ctx.file)}
    /\ last.op = "new" => ~Active(ctx)
    /\ (~Active(last.pre) /\ Active(ctx)) => (last.op = "open" /\ Returned(0))
    /\ (Active(last.pre) /\ ~Active(ctx)) => (last.op = "close" /\ Returned(0))
    /\ (last.op = "open" /\ Returned(0)) => (~Active(last.pre) /\ Active(ctx))
    /\ (last.op = "close" /\ Returned(0)) => (Active(last.pre) /\ ~Active(ctx))

\* an open, a close and a second open have succeeded in turn
C1_Witness ==
    /\ prev.op = "close" /\ prev.ret = 0
    /\ last.op = "open" /\ Returned(0)
    /\ Active(ctx) /\ balance = 1

\* C2: an open on a context that is already open, whatever the identifier,
\* returns -1, makes no file-system call, stores nothing through out_size
\* and leaves the context (handle, cached size) as it was.
C2_SecondOpenFails ==
    (last.op = "open" /\ Active(last.pre)) =>
        /\ Returned(-1)
        /\ ctx = last.pre
        /\ last.fscalls = << >>
        /\ last.wrote = << >>
        /\ fds = {ctx.file[1].fd}

\* an open with the matching identifier right after a successful open
C2_Witness ==
    /\ prev.op = "open" /\ prev.ret = 0
    /\ last.op = "open" /\ last.file_id = ctx.id
    /\ Active(last.pre)
    /\ disk.linked

\* C3: an open on an inactive context with an identifier other than the
\* context's returns -1, makes no file-system call, stores nothing through
\* out_size and leaves the context inactive and unchanged.
C3_MismatchedOpenFails ==
    (last.op = "open" /\ ~Active(last.pre) /\ last.file_id # last.pre.id) =>
        /\ Returned(-1)
        /\ ctx = last.pre
        /\ last.fscalls = << >>
        /\ last.wrote = << >>
        /\ fds = {}

\* a mismatched open while the file exists and could have been opened
C3_Witness ==
    /\ last.op = "open" /\ ~Active(last.pre) /\ last.file_id # ctx.id
    /\ disk.linked /\ Len(disk.data) > 0

\* C4: on an inactive context every read, write and close, whatever the size
\* and offset, returns -1 without panicking, without a file-system call,
\* without allocating a scratch buffer, without copying a byte, and leaves
\* the context and the caller's buffer as they were.
C4_InactiveCallsFail ==
    (last.op \in {"read", "write", "close"} /\ ~Active(last.pre)) =>
        /\ Returned(-1)
        /\ ctx = last.pre
        /\ last.fscalls = << >>
        /\ last.pos = << >>
        /\ last.alloc = << >>
        /\ last.copied = 0
        /\ last.op = "read" => last.out = CallerBuf(last.size)
        /\ fds = {}

\* a read with a negative size and the most negative offset, not open
C4_Witness ==
    /\ last.op = "read" /\ ~Active(last.pre)
    /\ last.size < 0 /\ last.offset = I32Min
    /\ disk.linked

\* C5: the first close on an active context returns 0 and releases the
\* handle once; a close delivered right after it returns -1 and releases
\* nothing; no descriptor is ever released twice and the context never has
\* two live descriptors.
C5_CloseOnce ==
    /\ ~doubleClose
    /\ Cardinality(fds) <= 1
    /\ (last.op = "close" /\ Active(last.pre)) =>
          /\ Returned(0)
          /\ ~Active(ctx)
          /\ last.fscalls = <<"close">>
          /\ fds = {}
    /\ (last.op = "close" /\ prev.op = "close" /\ prev.ret = 0) =>
          /\ Returned(-1)
          /\ last.fscalls = << >>
          /\ ctx = last.pre

\* a close right after a successful close
C5_Witness ==
    /\ prev.op = "close" /\ prev.ret = 0 /\ prev.fscalls = <<"close">>
    /\ last.op = "close" /\ Returned(-1)

\* the most recent callback was an open with the matching identifier on an
\* inactive context whose File::open failed
OpenFsFailed ==
    /\ last.op = "open" /\ ~Active(last.pre) /\ last.file_id = last.pre.id
    /\ last.fscalls = <<"open">>

\* C6: when open is called with the matching identifier on an inactive
\* context and the path cannot be opened, open returns -1 and the context
\* is unchanged and inactive; a close that follows returns -1; an open that
\* follows is treated as a first open: it succeeds with the file's length
\* if the path can now be opened and fails the same way if it cannot.
C6_FailedOpenRetryable ==
    /\ [][(CallStep("open") /\ ~Active(ctx) /\ last'.file_id = ctx.id
               /\ ~disk.linked) =>
            /\ OpenFsFailed'
            /\ status' = "running" /\ last'.ret = -1
            /\ ctx' = ctx
            /\ fds' = fds
            /\ last'.wrote = << >>]_vars
    /\ [][(CallStep("close") /\ OpenFsFailed) =>
            (status' = "running" /\ last'.ret = -1 /\ ctx' = ctx)]_vars
    /\ [][(CallStep("open") /\ OpenFsFailed /\ last'.file_id = ctx.id
               /\ status' = "running") =>
            IF disk.linked
            THEN /\ last'.ret = 0
                 /\ Active(ctx')
                 /\ ctx'.size = Len(disk.data)
                 /\ last'.wrote # << >>
            ELSE /\ last'.ret = -1
                 /\ ctx' = ctx]_vars

\* an open fails on a missing path, the file appears, the next open succeeds
C6_Witness ==
    /\ prev.op = "open" /\ prev.ret = -1 /\ prev.fscalls = <<"open">>
    /\ last.op = "open" /\ last.file_id = ctx.id /\ Returned(0)
    /\ Active(ctx)

\* C7: on an active context a write of the (non-empty) bytes B at an offset
\* within the file returns Len(B), and a read of Len(B) bytes at that offset right
\* after it returns exactly B (device errors aside).
C7_WriteThenRead ==
    /\ [][(Write /\ Active(ctx) /\ last'.size > 0 /\ last'.offset >= 0
               /\ last'.offset + last'.size <= Len(disk.data)
               /\ last'.err # "EIO") =>
            (status' = "running" /\ last'.ret = last'.size)]_vars
    /\ [][(CallStep("read") /\ last.op = "write" /\ last.size >= 0
               /\ last.ret = last.size
               /\ last'.size = last.size /\ last'.offset = last.offset
               /\ last'.err # "EIO") =>
            (status' = "running" /\ last'.ret = last.size
               /\ last'.out = last.out)]_vars

\* C8: on an active context a read with offset >= 0 and length >= 0 returns
\* n = min(length, max(0, file length - offset)), the first n bytes of the
\* caller's buffer are the file's bytes at [offset, offset + n), and a short
\* or empty result at end of file is a success (device errors aside); while
\* no open is outstanding (before the first, after a close) a read fails.
C8_ReadAtOffset ==
    /\ [][(CallStep("read") /\ Active(ctx) /\ last'.size >= 0
               /\ last'.offset >= 0 /\ last'.err # "EIO") =>
            LET n == Min(last'.size, Max(0, Len(disk.data) - last'.offset)) IN
            /\ status' = "running"
            /\ last'.ret = n
            /\ last'.ret >= 0
            /\ Len(last'.out) = last'.size
            /\ SubSeq(last'.out, 1, n)
                  = SubSeq(disk.data, last'.offset + 1, last'.offset + n)]_vars
    /\ [][(CallStep("read") /\ balance = 0) =>
            (status' = "running" /\ last'.ret = -1)]_vars

\* a read that crosses the end of the file returns fewer bytes than asked
C8_Witness ==
    /\ last.op = "read" /\ last.ioOk
    /\ last.offset > 0
    /\ 0 < last.ret /\ last.ret < last.size
    /\ status = "running"

\* C9: in a read that reached the positional read, bytes are copied to the
\* caller's buffer only if the positional read succeeded, and then at most
\* as many as were read and as the caller's size; if the positional read
\* failed, nothing is copied and the callback returns -1.
C9_CopyOnlyAfterRead ==
    (last.op = "read" /\ last.fscalls = <<"pread">>) =>
        IF last.ioOk
        THEN /\ last.copied <= last.ion
             /\ last.copied <= last.size
        ELSE /\ last.copied = 0
             /\ last.out = CallerBuf(last.size)
             /\ Returned(-1)

\* C10: a read or write on an active context whose offset is 2^31 (the most
\* negative value once it is an i32) returns -1 before any file-system call;
\* the offset is never converted and handed to the positional I/O.
C10_OffsetOverflowRejected ==
    (/\ last.op \in {"read", "write"}
     /\ Active(last.pre)
     /\ last.size >= 0
     /\ last.offset = AsI32(2^(IntBits - 1))) =>
        /\ Returned(-1)
        /\ last.fscalls = << >>
        /\ last.pos = << >>

\* C11: open never returns 0 while storing through out_size a value that
\* differs from the file's length by wrap-around: the value stored is the
\* length, or the length clamped to the largest i32.
C11_SizeNotTruncated ==
    [][(CallStep("open") /\ status' = "running" /\ last'.ret = 0) =>
        /\ last'.wrote # << >>
        /\ \/ last'.wrote[1] = Len(disk.data)
           \/ Len(disk.data) > I32Max /\ last'.wrote[1] = I32Max]_vars

\* C12: a read or write on an active context with a negative size returns
\* -1 without panicking, without asking for a scratch buffer, without
\* copying and without a file-system call.
C12_NegativeSizeRejected ==
    (last.op \in {"read", "write"} /\ Active(last.pre) /\ last.size < 0) =>
        /\ Returned(-1)
        /\ last.alloc = << >>
        /\ last.copied = 0
        /\ last.fscalls = << >>

\* C13: an open that returns 0 caches the file's length as observed then and
\* stores that same value through out_size; while the handle is present no
\* read or write changes the cached size.
C13_SizeIsLengthAtOpen ==
    /\ [][(CallStep("open") /\ status' = "running" /\ last'.ret = 0) =>
            /\ Active(ctx')
            /\ ctx'.size = Len(disk.data)
            /\ last'.wrote = << ctx'.size >>]_vars
    /\ [][((CallStep("read") \/ CallStep("write")) /\ Active(ctx)) =>
            ctx'.size = ctx.size]_vars

C15_CloseFrame ==
    /\ (last.op = "close" /\ Returned(0)) =>
          /\ Active(last.pre)
          /\ ctx = [last.pre EXCEPT !.file = << >>]
          /\ ctx.size = last.pre.size
          /\ fds = {}
    /\ (last.op = "close" /\ Returned(-1)) =>
          /\ ctx = last.pre
          /\ last.fscalls = << >>

\* a successful close of a context whose cached size is not zero
C15_Witness ==
    /\ last.op = "close" /\ Returned(0)
    /\ last.pre.size > 0 /\ ctx.size = last.pre.size
    /\ ~Active(ctx)

\* C16: every callback returns, for every input and context state: open and
\* close return 0 or -1, read and write return -1 or a count between 0 and
\* the size asked for.
C16_ReturnConvention ==
    (last.op \in {"open", "read", "write", "close"}) =>
        /\ status = "running"
        /\ last.op \in {"open", "close"} => last.ret \in {0, -1}
        /\ last.op \in {"read", "write"} =>
              (last.ret = -1 \/ (0 <= last.ret /\ last.ret <= last.size))

\* C17: get_file_transfer_status returns Ok((size, offset)) with the values
\* the engine stored when the engine's return code is >= 0 and the
\* file-transfer error when it is negative; it makes no file-system call,
\* hands the engine no table and leaves the context as it was.
C17_StatusPassThrough ==
    (last.op = "status") =>
        /\ Len(last.res) = 1
        /\ last.rc >= 0 =>
              /\ last.res[1].ok
              /\ last.res[1].size = last.size
              /\ last.res[1].offset = last.offset
        /\ last.rc < 0 =>
              /\ ~last.res[1].ok
              /\ last.res[1].err = "transfer status query"
        /\ ctx = last.pre
        /\ last.fscalls = << >>
        /\ last.handed = << >>
        /\ fds = {ctx.file[i].fd : i \in 1..Len(ctx.file)}

\* the engine reports a size and an offset that differ, with a positive code,
\* while a transfer is active
C17_Witness ==
    /\ last.op = "status" /\ last.rc > 0
    /\ last.size = I32Max /\ last.offset = 1
    /\ last.res[1].ok
    /\ Active(ctx)

\* C18: register_file hands the engine one operation table per call, with
\* the four callbacks and the context's address; it returns an error
\* exactly when the engine's return code is negative; it makes no
\* file-system call and leaves the context as it was.
C18_RegisterFile ==
    (last.op = "register") =>
        /\ last.handed = << [arg |-> CtxAddr,
                             open |-> "raw_file_open",
                             read |-> "raw_file_read",
                             write |-> "raw_file_write",
                             close |-> "raw_file_close"] >>
        /\ Len(last.res) = 1
        /\ last.res[1].ok <=> last.rc >= 0
        /\ ~last.res[1].ok => last.res[1].err = "ops register"
        /\ ctx = last.pre
        /\ last.fscalls = << >>
        /\ fds = {ctx.file[i].fd : i \in 1..Len(ctx.file)}

\* the engine rejects the table of a context that was never opened
C18_Witness ==
    /\ last.op = "register" /\ last.rc < 0
    /\ ~last.res[1].ok
    /\ prev.op = "new"
    /\ ~Active(ctx) /\ ctx.size = 0

\* C19: when open with the matching identifier on an inactive context opens
\* the file but cannot query its length, open returns -1 without panicking
\* and leaves the context inactive and unchanged.
C19_MetadataFailureReturns ==
    (/\ last.op = "open" /\ ~Active(last.pre)
     /\ last.file_id = last.pre.id
     /\ last.fscalls = <<"open", "fstat">>
     /\ last.err = "EIO") =>
        /\ Returned(-1)
        /\ ctx = last.pre

\* C20: whatever open/close cycles came before, an open with the matching
\* identifier on the inactive context does what a first open does: it fails
\* with -1 and no change when the file cannot be opened; when the file is
\* opened and its length queried it returns 0, caches the length the file
\* has now in place of the stale one and reports a size; the stale cached
\* size never decides the outcome.
C20_Reusable ==
    [][(CallStep("open") /\ ~Active(ctx) /\ last'.file_id = ctx.id) =>
        IF ~disk.linked
        THEN /\ status' = "running"
             /\ last'.ret = -1
             /\ ctx' = ctx
        ELSE \/ /\ status' = "running"
                /\ last'.ret = 0
                /\ Active(ctx')
                /\ ctx'.size = Len(disk.data)
                /\ ctx' = [ctx EXCEPT !.file = ctx'.file, !.size = ctx'.size]
                /\ last'.wrote # << >>
             \/ /\ last'.fscalls = <<"open", "fstat">>
                /\ last'.err = "EIO"
                /\ status' \in PanicOutcomes
                /\ ctx' = ctx]_vars

\* an open right after a successful close replaces a stale cached size
C20_Witness ==
    /\ prev.op = "close" /\ prev.ret = 0 /\ prev.fscalls = <<"close">>
    /\ last.op = "open" /\ Returned(0)
    /\ last.pre.size > 0 /\ ctx.size # last.pre.size
    /\ Active(ctx)
====
